---- MODULE Spec2Model ----
(***************************************************************************)
(* State-machine model of the baseline-JPEG strip encoder of               *)
(* packages/wasm-engine/src/lib.rs: process_strip and the stages it calls  *)
(* (rgb_to_ycbcr_block, forward_dct, quantize, huffman_encode_mcu,         *)
(* encode_block, encode_ac_symbol, categorize) and BitstreamWriter.        *)
(*                                                                         *)
(* Machine integers keep their width: bit_buffer is a 32-bit vector, i16   *)
(* and u8 values are integers with explicit saturation, wrap-around or     *)
(* panic where the Rust code has them.  The f32 arithmetic of the colour   *)
(* conversion and of the DCT is not computed: the transform's output is    *)
(* drawn from the blocks of YDct, CbDct and CrDct, and the colour          *)
(* conversion is modelled by the pixel addresses it reads.                 *)
(***************************************************************************)
EXTENDS Integers, Sequences, FiniteSets, TLC

VARIABLES
    overflow_checks, \* build profile: TRUE = arithmetic overflow panics
    pc,              \* position of the running call
    width,           \* process_strip argument
    pixel_len,       \* pixel_data.len()
    luma_q_table,    \* process_strip argument
    chroma_q_table,  \* process_strip argument
    x,               \* loop variable of process_strip
    bitstream,       \* the BitstreamWriter
    dc_predictors,   \* (Y, Cb, Cr)
    quant,           \* <<y_quant, cb_quant, cr_quant>> of the current MCU
    out,             \* bytes returned by finish / process_strip
    panic,           \* the place the call panicked at, or "none"
    calls,           \* history: write_bits calls issued, in order
    syms,            \* history: AC symbols of the block encoded last
    block_done,      \* history: the block encoded last and its component
    reads,           \* history: pixel addresses read for the current MCU
    columns,         \* history: macroblock column starts, in order
    dcs,             \* history: quantized (Y, Cb, Cr) DC of each column
    dclog,           \* history: DC differences computed, per component
    qsteps,          \* history: quantization steps quantize divided by
    before,          \* history: the writer before the last write_bits
    last,            \* history: the last write_bits call
    value,           \* input of the categorize run
    result           \* output of the categorize run

vars == <<overflow_checks, pc, width, pixel_len, luma_q_table, chroma_q_table,
          x, bitstream, dc_predictors, quant, out, panic, calls, syms,
          block_done, reads, columns, dcs, dclog, qsteps, before, last,
          value, result>>

(***************************************************************************)
(* Constant tables of the program.                                         *)
(***************************************************************************)
DC_LUMA_CODES == <<0, 2, 3, 4, 5, 6, 14, 30, 62, 126, 254, 510>>
DC_LUMA_SIZES == <<2, 3, 3, 3, 3, 3, 4, 5, 6, 7, 8, 9>>
DC_CHROMA_CODES == <<0, 1, 2, 6, 14, 30, 62, 126, 254, 510, 1022, 2046>>
DC_CHROMA_SIZES == <<2, 2, 2, 3, 4, 5, 6, 7, 8, 9, 10, 11>>

\* (symbol, code, size)
AC_LUMA_TABLE ==
    << <<0, 10, 4>>, <<1, 0, 2>>, <<2, 1, 2>>, <<3, 4, 3>>, <<4, 11, 4>>,
       <<5, 26, 5>>, <<6, 120, 7>>, <<7, 248, 8>>, <<8, 1014, 10>>,
       <<9, 65410, 16>>, <<10, 65411, 16>>, <<17, 12, 4>>, <<18, 27, 5>>,
       <<19, 121, 7>>, <<20, 502, 9>>, <<21, 2038, 11>>, <<22, 65412, 16>>,
       <<240, 65280, 16>> >>

AC_CHROMA_TABLE ==
    << <<0, 0, 2>>, <<1, 1, 2>>, <<2, 4, 3>>, <<3, 10, 4>>, <<4, 24, 5>>,
       <<5, 25, 5>>, <<6, 56, 6>>, <<7, 120, 7>>, <<8, 500, 9>>,
       <<9, 1014, 10>>, <<10, 4084, 12>>, <<240, 65280, 16>> >>

\* ZIGZAG[i] of the source is ZIGZAG[i + 1] here (sequences start at 1)
ZIGZAG ==
    << 0,  1,  8, 16,  9,  2,  3, 10,
      17, 24, 32, 25, 18, 11,  4,  5,
      12, 19, 26, 33, 40, 48, 41, 34,
      27, 20, 13,  6,  7, 14, 21, 28,
      35, 42, 49, 56, 57, 50, 43, 36,
      29, 22, 15, 23, 30, 37, 44, 51,
      58, 59, 52, 45, 38, 31, 39, 46,
      53, 60, 61, 54, 47, 55, 62, 63 >>

(***************************************************************************)
(* Machine arithmetic.                                                     *)
(***************************************************************************)
Bit(v, i) == (v \div (2 ^ i)) % 2

\* a u32 as the tuple of its 32 bits, most significant first: bit i of the
\* word is element 32 - i
ZeroU32 == [k \in 1..32 |-> 0]

\* b << n on u32 (n < 32): the bits shifted past bit 31 are lost
Shl32(b, n) == [k \in 1..32 |-> IF k + n <= 32 THEN b[k + n] ELSE 0]

\* b | (v as u32) for a u16 v
OrU16(b, v) ==
    [k \in 1..32 |-> IF k > 16 /\ Bit(v, 32 - k) = 1 THEN 1 ELSE b[k]]

\* (b >> n) as u8
ShrAsU8(b, n) ==
    LET bit(j) == IF n + j <= 31 THEN b[32 - (n + j)] ELSE 0
    IN  bit(0) + 2 * bit(1) + 4 * bit(2) + 8 * bit(3)
        + 16 * bit(4) + 32 * bit(5) + 64 * bit(6) + 128 * bit(7)

RECURSIVE BitOr(_, _)
\* a | b on non-negative integers
BitOr(a, b) ==
    IF a = 0 THEN b
    ELSE IF b = 0 THEN a
    ELSE (IF a % 2 = 1 \/ b % 2 = 1 THEN 1 ELSE 0)
         + 2 * BitOr(a \div 2, b \div 2)

RECURSIVE BitLen(_)
\* 16 - leading_zeros of a u16, i.e. the bit length
BitLen(v) == IF v = 0 THEN 0 ELSE 1 + BitLen(v \div 2)

(***************************************************************************)
(* BitstreamWriter.                                                        *)
(***************************************************************************)
new == [buffer |-> <<>>, bit_buffer |-> ZeroU32, bit_count |-> 0]

push(buffer, byte) ==
    IF byte = 255 THEN Append(Append(buffer, byte), 0)
    ELSE Append(buffer, byte)

RECURSIVE drain(_)
\* the while loop of write_bits
drain(w) ==
    IF w.bit_count >= 8
    THEN LET bc == w.bit_count - 8
             byte == ShrAsU8(w.bit_buffer, bc)
         IN  drain([buffer |-> push(w.buffer, byte),
                    bit_buffer |-> w.bit_buffer,
                    bit_count |-> bc])
    ELSE w

\* the plausible slip: the byte is pushed without the stuffing test
write_bits_unstuffed(w, bits, count) ==
    LET RECURSIVE d(_)
        d(v) == IF v.bit_count >= 8
                THEN d([buffer |-> Append(v.buffer,
                                     ShrAsU8(v.bit_buffer, v.bit_count - 8)),
                        bit_buffer |-> v.bit_buffer,
                        bit_count |-> v.bit_count - 8])
                ELSE v
    IN  IF count = 0 THEN w
        ELSE d([buffer |-> w.buffer,
                bit_buffer |-> OrU16(Shl32(w.bit_buffer, count), bits),
                bit_count |-> w.bit_count + count])

write_bits(w, bits, count) ==
    IF count = 0 THEN w
    ELSE drain([buffer |-> w.buffer,
                bit_buffer |-> OrU16(Shl32(w.bit_buffer, count), bits),
                bit_count |-> w.bit_count + count])

finish(w) ==
    IF w.bit_count > 0
    THEN push(w.buffer, ShrAsU8(Shl32(w.bit_buffer, 8 - w.bit_count), 0))
    ELSE w.buffer

(***************************************************************************)
(* The stream a writer holds, read back from its bytes.                    *)
(***************************************************************************)
\* the bytes with the 0x00 that follows a 0xFF removed
Destuff(bytes) ==
    LET kept == {i \in 1..Len(bytes) :
                    ~(bytes[i] = 0 /\ i > 1 /\ bytes[i - 1] = 255)}
        nth(k) == CHOOSE i \in kept :
                      Cardinality({j \in kept : j <= i}) = k
    IN  [k \in 1..Cardinality(kept) |-> bytes[nth(k)]]

\* the n low-order bits of v, most significant first
LowBits(v, n) == [k \in 1..n |-> Bit(v, n - k)]

\* the bits of the bytes, most significant first
BytesBits(bytes) ==
    [k \in 1..(8 * Len(bytes)) |->
        Bit(bytes[((k - 1) \div 8) + 1], 7 - ((k - 1) % 8))]

\* the bit_count low-order bits of bit_buffer, most significant first
PendingBits(w) ==
    [k \in 1..w.bit_count |-> w.bit_buffer[32 - (w.bit_count - k)]]

StreamBits(w) == BytesBits(Destuff(w.buffer)) \o PendingBits(w)

Stuffed(bytes) ==
    \A i \in 1..Len(bytes) :
        bytes[i] = 255 => (i < Len(bytes) /\ bytes[i + 1] = 0)

NoCall == [bits |-> 0, count |-> 0]

(***************************************************************************)
(* Entropy coder.                                                          *)
(***************************************************************************)
I16_MIN == -32768
I16_MAX == 32767

\* the slip of taking 15 - leading_zeros: one bit too few
categorize_short(v, checks) ==
    IF v = 0 THEN [panic |-> FALSE, cat |-> 0, bits |-> 0]
    ELSE LET abs_val == IF v < 0 THEN -v ELSE v
         IN  [panic |-> FALSE, cat |-> BitLen(abs_val) - 1,
              bits |-> IF v > 0 THEN abs_val ELSE abs_val - 1]

\* categorize(value: i16) -> (u8, u16).  value.abs() of i16::MIN overflows:
\* it panics in a build with overflow checks and yields i16::MIN without,
\* which `as u16` turns into 32768.
categorize(v, checks) ==
    IF v = 0 THEN [panic |-> FALSE, cat |-> 0, bits |-> 0]
    ELSE IF v = I16_MIN /\ checks THEN [panic |-> TRUE, cat |-> 0, bits |-> 0]
    ELSE LET abs_val == IF v < 0 THEN -v ELSE v
             nbits == BitLen(abs_val)
         IN  [panic |-> FALSE, cat |-> nbits,
              bits |-> IF v > 0 THEN abs_val ELSE abs_val - 1]

\* the entropy coder's output so far: the writer and the write_bits calls
\* issued on it
emit(st, bits, count) ==
    [w |-> write_bits(st.w, bits, count),
     calls |-> Append(st.calls, [bits |-> bits, count |-> count])]

encode_ac_symbol(symbol, is_luma, st) ==
    LET table == IF is_luma THEN AC_LUMA_TABLE ELSE AC_CHROMA_TABLE
        hits == {k \in 1..Len(table) : table[k][1] = symbol}
    IN  IF hits # {}
        THEN LET k == CHOOSE j \in hits : \A h \in hits : j <= h
             IN  emit(st, table[k][2], table[k][3])
        ELSE emit(st, 65535, 16)

\* for i in (1..64).rev() { if block[ZIGZAG[i]] != 0 { last_nz = i; break } }:
\* the greatest zig-zag position in 1..63 holding a nonzero, 0 if none
last_nonzero(block) ==
    LET nz == {i \in 1..63 : block[ZIGZAG[i + 1] + 1] # 0}
    IN  IF nz = {} THEN 0 ELSE CHOOSE i \in nz : \A j \in nz : j <= i

\* the body of `for i in 1..=last_nz` at position i.  s holds run_length,
\* the coder's output st, the symbols emitted so far as
\* [pos, symbol, coeff], and the place of a panic; after a panic nothing
\* more runs.  symbol is u8: (run_length << 4) | cat.
ac_step(block, is_luma, i, s, checks) ==
    LET coeff == block[ZIGZAG[i + 1] + 1]
        c == categorize(coeff, checks)
        symbol == BitOr(s.run_length * 16, c.cat)
    IN  IF s.panic # "none" THEN s
        ELSE IF coeff = 0
        THEN IF s.run_length + 1 = 16
             THEN [run_length |-> 0,
                   st |-> encode_ac_symbol(240, is_luma, s.st),
                   syms |-> Append(s.syms,
                                   [pos |-> i, symbol |-> 240, coeff |-> 0]),
                   panic |-> "none"]
             ELSE [s EXCEPT !.run_length = s.run_length + 1]
        ELSE IF c.panic
        THEN [s EXCEPT !.panic = "abs_overflow"]
        ELSE [run_length |-> 0,
              st |-> emit(encode_ac_symbol(symbol, is_luma, s.st),
                          c.bits, c.cat),
              syms |-> Append(s.syms,
                              [pos |-> i, symbol |-> symbol, coeff |-> coeff]),
              panic |-> "none"]

\* the iterations lo..hi of the loop, in order (split in halves to keep the
\* evaluation shallow)
RECURSIVE ac_loop(_, _, _, _, _, _)
ac_loop(block, is_luma, lo, hi, s, checks) ==
    IF lo > hi THEN s
    ELSE IF lo = hi THEN ac_step(block, is_luma, lo, s, checks)
    ELSE LET mid == (lo + hi) \div 2
             first == ac_loop(block, is_luma, lo, mid, s, checks)
         IN  IF first.panic # "none" THEN first
             ELSE ac_loop(block, is_luma, mid + 1, hi, first, checks)

\* lines 248-262: the DC difference, the predictor update and the DC code.
\* The subtraction is on i16: out of range it panics in a build with
\* overflow checks and wraps without.  diff is <<>> when it panicked.
encode_dc(block, is_luma, dc_predictor, st, checks) ==
    LET raw == block[1] - dc_predictor
        fits == raw >= I16_MIN /\ raw <= I16_MAX
        dc_diff == IF fits THEN raw
                   ELSE ((raw - I16_MIN) % 65536) + I16_MIN
        c == categorize(dc_diff, checks)
        codes == IF is_luma THEN DC_LUMA_CODES ELSE DC_CHROMA_CODES
        sizes == IF is_luma THEN DC_LUMA_SIZES ELSE DC_CHROMA_SIZES
    IN  IF ~fits /\ checks
        THEN [dc_predictor |-> dc_predictor, diff |-> <<>>, st |-> st,
              panic |-> "dc_sub_overflow"]
        ELSE IF c.panic
        THEN [dc_predictor |-> block[1], diff |-> <<dc_diff>>, st |-> st,
              panic |-> "abs_overflow"]
        ELSE IF c.cat + 1 > Len(codes)
        THEN [dc_predictor |-> block[1], diff |-> <<dc_diff>>, st |-> st,
              panic |-> "dc_table_index"]
        ELSE LET st1 == emit(st, codes[c.cat + 1], sizes[c.cat + 1])
             IN  [dc_predictor |-> block[1], diff |-> <<dc_diff>>,
                  st |-> IF c.cat > 0 THEN emit(st1, c.bits, c.cat) ELSE st1,
                  panic |-> "none"]

\* the slip of testing last_nz <= 63: an EOB after a fully packed block too
end_of_block_always(last_nz, is_luma, acc) ==
    [acc EXCEPT !.st = encode_ac_symbol(0, is_luma, acc.st),
                !.syms = Append(acc.syms,
                                [pos |-> 64, symbol |-> 0, coeff |-> 0])]

\* lines 295-298: the End-Of-Block symbol, logged at pos 64
end_of_block(last_nz, is_luma, acc) ==
    IF last_nz < 63
    THEN [acc EXCEPT !.st = encode_ac_symbol(0, is_luma, acc.st),
                     !.syms = Append(acc.syms,
                                     [pos |-> 64, symbol |-> 0, coeff |-> 0])]
    ELSE acc

\* encode_block.  The result holds the predictor, the DC difference
\* computed, the coder's output, the AC symbols emitted as
\* [pos, symbol, coeff] and the place of a panic ("none" when it returned).
encode_block(block, is_luma, dc_predictor, st, checks) ==
    LET dc == encode_dc(block, is_luma, dc_predictor, st, checks)
        last_nz == last_nonzero(block)
        ac == ac_loop(block, is_luma, 1, last_nz,
                      [run_length |-> 0, st |-> dc.st, syms |-> <<>>,
                       panic |-> "none"], checks)
        end == IF ac.panic = "none" THEN end_of_block(last_nz, is_luma, ac)
               ELSE ac
    IN  IF dc.panic # "none"
        THEN [dc_predictor |-> dc.dc_predictor, diff |-> dc.diff,
              st |-> dc.st, syms |-> <<>>, panic |-> dc.panic]
        ELSE [dc_predictor |-> dc.dc_predictor, diff |-> dc.diff,
              st |-> end.st, syms |-> end.syms, panic |-> end.panic]

(***************************************************************************)
(* Colour conversion, transform, quantizer.                                *)
(***************************************************************************)
Min(a, b) == IF a <= b THEN a ELSE b

\* the slip of not clamping the column to width - 1
rgb_to_ycbcr_block_unclamped(len, w, x0) ==
    LET offset(idx) == (((idx - 1) \div 8) * w + (x0 + ((idx - 1) % 8))) * 4
    IN  [offsets |-> [idx \in 1..64 |-> offset(idx)],
         panic |-> IF \E idx \in 1..64 : offset(idx) + 2 >= len
                   THEN "pixel_index" ELSE "none"]

\* rgb_to_ycbcr_block, by the addresses it reads: sample idx = row * 8 + col
\* (kept at idx + 1) reads pixel_data[offset], [offset + 1], [offset + 2];
\* an index past the slice panics.  The sample values are f32 and are not
\* computed.  The offset is u32 arithmetic, which stays in range for the
\* widths explored (32 * width < 2^32).
rgb_to_ycbcr_block(len, w, x0) ==
    LET offset(idx) ==
            LET row == (idx - 1) \div 8
                col == (idx - 1) % 8
                px == Min(x0 + col, w - 1)
                py == row
            IN  (py * w + px) * 4
    IN  [offsets |-> [idx \in 1..64 |-> offset(idx)],
         panic |-> IF \E idx \in 1..64 : offset(idx) + 2 >= len
                   THEN "pixel_index" ELSE "none"]

\* a block with the coefficients f (natural index |-> value), 0 elsewhere
Blk(f) == [i \in 1..64 |-> IF (i - 1) \in DOMAIN f THEN f[i - 1] ELSE 0]

\* forward_dct is f32 arithmetic and is not computed: its output for the
\* three components of a macroblock is drawn from these coefficient blocks
YDct ==
    { Blk(<<>>),
      Blk(0 :> 40 @@ 1 :> -3 @@ 8 :> 5),
      Blk(0 :> -17 @@ 16 :> -1 @@ 63 :> 1),
      Blk(0 :> 7 @@ 12 :> 2),
      Blk(0 :> 1000 @@ 19 :> -700) }

CbDct ==
    { Blk(0 :> -5 @@ 1 :> 2 @@ 9 :> -1),
      Blk(0 :> 12 @@ 63 :> -3) }

CrDct ==
    { Blk(<<>>),
      Blk(0 :> 3 @@ 8 :> -6) }

\* (c / q).round() as i16 for an integer-valued c and a u8 q: round is half
\* away from zero; c / 0.0 is +inf, -inf or NaN, and `as i16` saturates the
\* infinities and sends NaN to 0
div_round_as_i16(c, q) ==
    IF q = 0
    THEN IF c > 0 THEN I16_MAX ELSE IF c < 0 THEN I16_MIN ELSE 0
    ELSE LET mag == ((2 * (IF c < 0 THEN -c ELSE c)) + q) \div (2 * q)
             r == IF c < 0 THEN -mag ELSE mag
         IN  IF r > I16_MAX THEN I16_MAX
             ELSE IF r < I16_MIN THEN I16_MIN ELSE r

quantize(dct_block, q_table) ==
    [i \in 1..64 |-> div_round_as_i16(dct_block[i], q_table[i])]

(***************************************************************************)
(* process_strip.                                                          *)
(***************************************************************************)
Range(f) == {f[i] : i \in DOMAIN f}

\* the slip of checking the luma table twice
validate_luma_twice(len, w, luma, chroma) ==
    IF Len(luma) # 64 THEN "luma_table_len"
    ELSE IF Len(luma) # 64 THEN "chroma_table_len"
    ELSE IF len # w * 8 * 4 THEN "pixel_size"
    ELSE "none"

\* the three assert_eq! of process_strip, in order: the place of the first
\* that fails, "none" when all hold.  (width as usize) * 8 * 4 stays in
\* range for the widths explored.
validate(len, w, luma, chroma) ==
    IF Len(luma) # 64 THEN "luma_table_len"
    ELSE IF Len(chroma) # 64 THEN "chroma_table_len"
    ELSE IF len # w * 8 * 4 THEN "pixel_size"
    ELSE "none"

Asserts == {"luma_table_len", "chroma_table_len", "pixel_size"}

\* let mut dc_predictors = (0i16, 0i16, 0i16)
fresh_predictors == <<0, 0, 0>>

\* the slip of handing dc_predictors.1 to both chroma blocks
component_shared_chroma(k) ==
    [is_luma |-> k = 1, predictor |-> IF k = 1 THEN 1 ELSE 2]

\* huffman_encode_mcu: block k of the macroblock (1 = y, 2 = cb, 3 = cr) is
\* encoded with this table choice and this predictor
component(k) == [is_luma |-> k = 1, predictor |-> k]

MaxWidth == 10

q_table(len, step, at, other) ==
    [i \in 1..len |-> IF i = at THEN other ELSE step]

Ones == q_table(64, 1, 1, 1)

LumaTables ==
    { q_table(64, 1, 1, 1), q_table(64, 2, 3, 5), q_table(64, 1, 1, 0),
      q_table(64, 1, 2, 0), q_table(63, 1, 1, 1), q_table(65, 1, 1, 1) }

ChromaTables ==
    { q_table(64, 1, 1, 1), q_table(64, 3, 1, 1), q_table(64, 1, 2, 0),
      q_table(63, 1, 1, 1), q_table(65, 1, 1, 1) }

Blank ==
    /\ x = 0
    /\ bitstream = new
    /\ dc_predictors = <<0, 0, 0>>
    /\ quant = <<>>
    /\ out = <<>>
    /\ panic = "none"
    /\ calls = <<>>
    /\ syms = <<>>
    /\ block_done = <<>>
    /\ reads = <<>>
    /\ columns = <<>>
    /\ dcs = <<>>
    /\ dclog = <<>>
    /\ qsteps = {}
    /\ before = new
    /\ last = NoCall
    /\ result = <<>>

Init ==
    /\ overflow_checks \in BOOLEAN
    /\ pc = "idle"
    /\ width = 0 /\ pixel_len = 0
    /\ luma_q_table = <<>> /\ chroma_q_table = <<>>
    /\ value = 0
    /\ Blank

\* process_strip is entered with these arguments: the asserts, then the
\* writer and the predictors
Enter(w, n, lt, ct) ==
    /\ width' = w
    /\ pixel_len' = n
    /\ luma_q_table' = lt
    /\ chroma_q_table' = ct
    /\ panic' = validate(n, w, lt, ct)
    /\ pc' = IF validate(n, w, lt, ct) = "none" THEN "loop" ELSE "panicked"
    /\ bitstream' = new
    /\ dc_predictors' = fresh_predictors
    /\ x' = 0
    /\ quant' = <<>> /\ out' = <<>> /\ calls' = <<>> /\ syms' = <<>>
    /\ block_done' = <<>> /\ reads' = <<>> /\ columns' = <<>>
    /\ dcs' = <<>> /\ dclog' = <<>> /\ qsteps' = {}
    /\ UNCHANGED <<overflow_checks, before, last, value, result>>

\* a call of process_strip, the first or one after an earlier call ended.
\* The calls explored: every width up to MaxWidth with buffers of the right
\* and of wrong lengths under all-ones tables, and every pair of tables of
\* LumaTables and ChromaTables at width 8.
Call ==
    /\ pc \in {"idle", "returned", "panicked"}
    /\ \/ \E w \in 0..MaxWidth :
          \E n \in {32 * w - 1, 32 * w, 32 * w + 1, 32 * w + 32} :
            n >= 0 /\ Enter(w, n, Ones, Ones)
       \/ \E lt \in LumaTables, ct \in ChromaTables :
            Enter(8, 32 * 8, lt, ct)

\* one iteration of `for x in (0..width).step_by(8)`, up to the quantizer
StartMcu ==
    /\ pc = "loop"
    /\ x < width
    /\ LET conv == rgb_to_ycbcr_block(pixel_len, width, x)
       IN  /\ reads' = conv.offsets
           /\ columns' = Append(columns, x)
           /\ IF conv.panic # "none"
              THEN /\ pc' = "panicked"
                   /\ panic' = conv.panic
                   /\ UNCHANGED <<quant, dcs, qsteps>>
              ELSE /\ pc' = "encode_y"
                   /\ panic' = "none"
                   /\ \E y_dct \in YDct, cb_dct \in CbDct, cr_dct \in CrDct :
                        quant' = <<quantize(y_dct, luma_q_table),
                                   quantize(cb_dct, chroma_q_table),
                                   quantize(cr_dct, chroma_q_table)>>
                   /\ dcs' = Append(dcs, <<quant'[1][1], quant'[2][1],
                                           quant'[3][1]>>)
                   /\ qsteps' = qsteps \cup Range(luma_q_table)
                                       \cup Range(chroma_q_table)
    /\ UNCHANGED <<overflow_checks, width, pixel_len, luma_q_table,
                   chroma_q_table, x, bitstream, dc_predictors, out, calls,
                   syms, block_done, dclog, before, last, value, result>>

\* the k-th encode_block call of huffman_encode_mcu
Encode(k, here, next) ==
    /\ pc = here
    /\ LET c == component(k)
           r == encode_block(quant[k], c.is_luma, dc_predictors[c.predictor],
                             [w |-> bitstream, calls |-> calls],
                             overflow_checks)
       IN  /\ dc_predictors' = [dc_predictors EXCEPT
                                   ![c.predictor] = r.dc_predictor]
           /\ bitstream' = r.st.w
           /\ calls' = r.st.calls
           /\ syms' = r.syms
           /\ dclog' = IF r.diff = <<>> THEN dclog
                       ELSE Append(dclog, [comp |-> k, col |-> Len(columns),
                                           diff |-> r.diff[1]])
           /\ panic' = r.panic
           /\ block_done' = IF r.panic = "none"
                            THEN <<[block |-> quant[k], comp |-> k]>>
                            ELSE <<>>
           /\ pc' = IF r.panic = "none" THEN next ELSE "panicked"
           /\ x' = IF r.panic = "none" /\ next = "loop" THEN x + 8 ELSE x
    /\ UNCHANGED <<overflow_checks, width, pixel_len, luma_q_table,
                   chroma_q_table, quant, out, reads, columns, dcs, qsteps,
                   before, last, value, result>>

EncodeY == Encode(1, "encode_y", "encode_cb")
EncodeCb == Encode(2, "encode_cb", "encode_cr")
EncodeCr == Encode(3, "encode_cr", "loop")

\* the loop is over: bitstream.finish()
Finish ==
    /\ pc = "loop"
    /\ x >= width
    /\ out' = finish(bitstream)
    /\ pc' = "returned"
    /\ UNCHANGED <<overflow_checks, width, pixel_len, luma_q_table,
                   chroma_q_table, x, bitstream, dc_predictors, quant, panic,
                   calls, syms, block_done, reads, columns, dcs, dclog,
                   qsteps, before, last, value, result>>

Next == Call \/ StartMcu \/ EncodeY \/ EncodeCb \/ EncodeCr \/ Finish

Spec == Init /\ [][Next]_vars

(***************************************************************************)
(* The writer driven directly: any 16-bit value, any count in 0..16.       *)
(***************************************************************************)
MaxWrites == 2
MaxCount == 16
WriterValues == {0, 1, 3, 255, 43690, 65535}

InitWriter ==
    /\ overflow_checks = FALSE
    /\ pc = "writing"
    /\ width = 0 /\ pixel_len = 0
    /\ luma_q_table = <<>> /\ chroma_q_table = <<>>
    /\ value = 0
    /\ Blank

WriteBits ==
    /\ pc = "writing"
    /\ Len(calls) < MaxWrites
    /\ \E bits \in WriterValues, count \in 0..MaxCount :
        /\ before' = bitstream
        /\ last' = [bits |-> bits, count |-> count]
        /\ calls' = Append(calls, [bits |-> bits, count |-> count])
        /\ bitstream' = write_bits(bitstream, bits, count)
    /\ UNCHANGED <<overflow_checks, pc, width, pixel_len, luma_q_table,
                   chroma_q_table, x, dc_predictors, quant, out, panic, syms,
                   block_done, reads,
                   columns, dcs, dclog, qsteps, value, result>>

FinishWriter ==
    /\ pc = "writing"
    /\ pc' = "finished"
    /\ out' = finish(bitstream)
    /\ UNCHANGED <<overflow_checks, width, pixel_len, luma_q_table,
                   chroma_q_table, x, bitstream, dc_predictors, quant, panic,
                   calls, syms, block_done, reads, columns, dcs, dclog,
                   qsteps, before, last, value, result>>

NextWriter == WriteBits \/ FinishWriter

SpecWriter == InitWriter /\ [][NextWriter]_vars

\* C1: after any sequence of write_bits calls (count in 0..16) and finish,
\* every 0xFF byte of the returned bytes, the last byte included, is
\* immediately followed by a 0x00 byte; the same holds of the writer's
\* buffer after every call.
StuffingInvariant ==
    /\ Stuffed(bitstream.buffer)
    /\ pc = "finished" => Stuffed(out)

\* a finished stream in which write_bits emitted a 0xFF
StuffingWitness ==
    /\ pc = "finished"
    /\ Len(calls) = MaxWrites
    /\ \E i \in 1..Len(out) : out[i] = 255
    /\ bitstream.bit_count > 0

\* C5: write_bits(value, count) appends exactly the count low-order bits of
\* value, most significant first, after all bits written earlier and leaves
\* those unchanged; count = 0 changes nothing; the number of pending bits is
\* in 0..7 between calls.
WriteBitsAppendsLowBits ==
    pc = "writing" =>
        /\ StreamBits(bitstream)
             = StreamBits(before) \o LowBits(last.bits, last.count)
        /\ last.count = 0 => bitstream = before
        /\ bitstream.bit_count \in 0..7

(***************************************************************************)
(* categorize run on its own, on every value of CatValues.                 *)
(***************************************************************************)
CatValues == -2047..2047

InitCat ==
    /\ overflow_checks \in BOOLEAN
    /\ pc = "categorize"
    /\ width = 0 /\ pixel_len = 0
    /\ luma_q_table = <<>> /\ chroma_q_table = <<>>
    /\ value \in CatValues
    /\ Blank

Categorize ==
    /\ pc = "categorize"
    /\ pc' = "categorized"
    /\ result' = <<categorize(value, overflow_checks)>>
    /\ UNCHANGED <<overflow_checks, width, pixel_len, luma_q_table,
                   chroma_q_table, x, bitstream, dc_predictors, quant, out,
                   panic, calls, syms, block_done, reads, columns, dcs,
                   dclog, qsteps, before, last, value>>

NextCat == Categorize

SpecCat == InitCat /\ [][NextCat]_vars

\* the standard JPEG rule for the extra bits of a class
Decode(class, extra) ==
    IF class = 0 THEN 0
    ELSE IF extra >= 2 ^ (class - 1) THEN extra
    ELSE extra - ((2 ^ class) - 1)

\* C2: for every value in -2047..2047, categorize(value) = (class, extra)
\* decodes back to value under the standard JPEG rule.
CategorizeRoundTrip ==
    pc = "categorized" =>
        /\ ~result[1].panic
        /\ Decode(result[1].cat, result[1].bits) = value

(***************************************************************************)
(* Claims about process_strip, checked under Spec.                         *)
(***************************************************************************)
InCall == pc \in {"loop", "encode_y", "encode_cb", "encode_cr",
                  "returned", "panicked"}

BadArguments ==
    \/ Len(luma_q_table) # 64
    \/ Len(chroma_q_table) # 64
    \/ pixel_len # width * 8 * 4

ZeroStepRejected ==
    /\ 0 \notin qsteps
    /\ (InCall /\ 0 \in (Range(luma_q_table) \cup Range(chroma_q_table)))
          => (pc = "panicked" /\ panic \in Asserts)

\* C6: per component, the DC difference coded in the first column is the
\* block's quantized DC (the predictors start at 0 in every call), the one
\* coded in a later column is the quantized DC minus the one of the same
\* component in the column before, and each predictor holds the quantized
\* DC of the last block encoded for its own component (0 before any).
DcDifferences ==
    InCall =>
        /\ \A n \in 1..Len(dclog) :
              LET e == dclog[n]
              IN  e.diff = dcs[e.col][e.comp]
                           - (IF e.col = 1 THEN 0 ELSE dcs[e.col - 1][e.comp])
        /\ \A k \in 1..3 :
              LET done == {n \in 1..Len(dclog) : dclog[n].comp = k}
              IN  dc_predictors[k] = IF done = {} THEN 0
                                     ELSE dcs[Cardinality(done)][k]

\* the Cr block of a second column coded against a nonzero predictor, in a
\* call that follows the state of an earlier column
DcDifferencesWitness ==
    /\ pc = "loop"
    /\ Len(dclog) = 6
    /\ dclog[6].comp = 3 /\ dclog[6].col = 2
    /\ dcs[1][3] # 0
    /\ dcs[1][2] # dcs[1][3]
    /\ dclog[6].diff # dcs[2][3]

NonzeroAc(block) == {i \in 1..63 : block[ZIGZAG[i + 1] + 1] # 0}

\* C8: a block's AC symbols end with one End-Of-Block symbol (0x00), and
\* hold no other, exactly when zig-zag position 63 is zero (all-zero AC
\* included); with position 63 nonzero no EOB is emitted.
EobIffTrailingZeros ==
    block_done # <<>> =>
        LET eobs == {n \in 1..Len(syms) : syms[n].symbol = 0}
        IN  IF 63 \in NonzeroAc(block_done[1].block)
            THEN eobs = {}
            ELSE Len(syms) >= 1 /\ eobs = {Len(syms)}

\* a block with nonzero AC coefficients, the last below position 63, and its
\* EOB
EobWitness ==
    /\ block_done # <<>>
    /\ NonzeroAc(block_done[1].block) # {}
    /\ 63 \notin NonzeroAc(block_done[1].block)
    /\ Len(syms) >= 2
    /\ syms[Len(syms)].symbol = 0

\* C9: the run nibble of every symbol emitted for a nonzero AC coefficient
\* is the number of zeros since the symbol emitted before it and at most
\* 15; 0xF0 is emitted exactly for each 16th consecutive zero ahead of a
\* later nonzero coefficient, and never for the zeros after the last one.
RunLengthSymbols ==
    block_done # <<>> =>
        LET b == block_done[1].block
            nz == NonzeroAc(b)
            ac == {n \in 1..Len(syms) : syms[n].pos <= 63}
            prev(n) == IF n = 1 THEN 0 ELSE syms[n - 1].pos
        IN  /\ \A i \in nz : \E n \in ac : syms[n].pos = i
            /\ \A n \in ac :
                  LET e == syms[n]
                  IN  /\ prev(n) < e.pos
                      /\ e.coeff = b[ZIGZAG[e.pos + 1] + 1]
                      /\ \A j \in (prev(n) + 1)..(e.pos - 1) : j \notin nz
                      /\ IF e.coeff # 0
                         THEN /\ e.symbol \div 16 = e.pos - prev(n) - 1
                              /\ e.symbol \div 16 <= 15
                              /\ e.symbol # 240
                         ELSE /\ e.symbol = 240
                              /\ e.pos - prev(n) = 16
                              /\ \E i \in nz : i > e.pos

RECURSIVE CatBits(_, _, _)
\* the codes of calls lo..hi, each its count low-order bits, concatenated
CatBits(cs, lo, hi) ==
    IF lo > hi THEN <<>>
    ELSE IF lo = hi THEN LowBits(cs[lo].bits, cs[lo].count)
    ELSE LET mid == (lo + hi) \div 2
             left == CatBits(cs, lo, mid)
         IN  IF Len(left) < 0 THEN <<>>
             ELSE left \o CatBits(cs, mid + 1, hi)

ZeroPadded(bits) ==
    bits \o [k \in 1..((8 - (Len(bits) % 8)) % 8) |-> 0]

TablesFit ==
    /\ \A k \in 1..Len(DC_LUMA_CODES) :
          DC_LUMA_CODES[k] < 2 ^ DC_LUMA_SIZES[k]
    /\ \A k \in 1..Len(DC_CHROMA_CODES) :
          DC_CHROMA_CODES[k] < 2 ^ DC_CHROMA_SIZES[k]
    /\ \A k \in 1..Len(AC_LUMA_TABLE) :
          AC_LUMA_TABLE[k][2] < 2 ^ AC_LUMA_TABLE[k][3]
    /\ \A k \in 1..Len(AC_CHROMA_TABLE) :
          AC_CHROMA_TABLE[k][2] < 2 ^ AC_CHROMA_TABLE[k][3]

CategorizeFits ==
    \A v \in CatValues, checks \in BOOLEAN :
        LET c == categorize(v, checks)
        IN  ~c.panic /\ c.bits < 2 ^ c.cat

\* C10: every write_bits(value, count) the entropy coder issues has
\* value < 2^count (the Huffman table entries, the 0xFFFF/16 fallback, the
\* pair categorize returns), so the writer's stream is the concatenation of
\* the codes and the de-stuffed output of a strip is that concatenation
\* zero-padded to a byte boundary.
CodesFitTheirLength ==
    /\ TablesFit
    /\ CategorizeFits
    /\ InCall =>
          /\ \A n \in 1..Len(calls) : calls[n].bits < 2 ^ calls[n].count
          /\ StreamBits(bitstream) = CatBits(calls, 1, Len(calls))
          /\ pc = "returned" =>
                BytesBits(Destuff(out))
                   = ZeroPadded(CatBits(calls, 1, Len(calls)))

\* a returned strip whose codes include the 16-bit fallback and whose bytes
\* hold a stuffed 0xFF and a padded last byte
CodesWitness ==
    /\ pc = "returned"
    /\ \E n \in 1..Len(calls) : calls[n] = [bits |-> 65535, count |-> 16]
    /\ \E i \in 1..Len(out) : out[i] = 255
    /\ bitstream.bit_count > 0

====
